---------------------------- MODULE Spec2Model ----------------------------
(***************************************************************************)
(* Model of the documentation retrieval core of support-mcp                *)
(* (src/tools/docs_rag.py): the scanner _iter_doc_files, the scorer        *)
(* _simple_score / _search_in_file and the aggregator                      *)
(* _search_docs_internal.                                                  *)
(*                                                                         *)
(* A text is a sequence of one-character strings.  The filesystem under    *)
(* the documentation root is the variable fs; one call of                  *)
(* _search_docs_internal is unrolled into its loop iterations.             *)
(***************************************************************************)
EXTENDS Integers, Sequences, FiniteSets, TLC

(***************************************************************************)
(* Bounds of the model.                                                    *)
(***************************************************************************)
\* number of paths under the documentation root
MaxFiles == 2

(***************************************************************************)
(* Program constants.                                                      *)
(***************************************************************************)
\* docs_rag.py:83-84  len(para_stripped) > 600, para_stripped[:600]
SnippetLimit == 600
\* docs_rag.py:107  _search_in_file(f, query, max_snippets=3)
PerFileSnippets == 3
\* docs_rag.py:170-171  max_results: ge=1, le=20
MaxResultsLe == 20

(***************************************************************************)
(* Characters.                                                             *)
(***************************************************************************)
\* characters matched by \s
Whitespace == {" ", "\n", "\t"}

\* characters of the model that are not matched by \w
Punctuation == {"!", ":", ".", "-", ","}

\* \w of the re module: everything of the model's alphabet that is neither
\* whitespace nor punctuation (letters, digits, underscore)
IsWordChar(c) == c \notin Whitespace /\ c \notin Punctuation

\* the sequence s with its elements computed once (TLC recomputes an element
\* of a function expression on every application)
AsSeq(s) == SubSeq(s, 1, Len(s))

\* str.lower() on the upper-case letters the model uses
UpperToLower ==
    ("E" :> "e") @@ ("R" :> "r") @@ ("O" :> "o") @@ ("T" :> "t") @@ ("X" :> "x")
    @@ ("P" :> "p")

LowerChar(c) == IF c \in DOMAIN UpperToLower THEN UpperToLower[c] ELSE c

\* str.lower()
Lower(s) == AsSeq([i \in 1..Len(s) |-> LowerChar(s[i])])

SetMin(S) == CHOOSE x \in S : \A y \in S : x <= y
SetMax(S) == CHOOSE x \in S : \A y \in S : x >= y
Min2(a, b) == IF a <= b THEN a ELSE b

\* str.strip(): drop leading and trailing whitespace
Strip(s) ==
    LET n == Len(s)
        first == CHOOSE i \in 1..n :
                    s[i] \notin Whitespace /\ \A j \in 1..(i-1) : s[j] \in Whitespace
        last  == CHOOSE i \in 1..n :
                    s[i] \notin Whitespace /\ \A j \in (i+1)..n : s[j] \in Whitespace
    IN  IF \A i \in 1..n : s[i] \in Whitespace THEN <<>> ELSE SubSeq(s, first, last)

\* s[:n]
Prefix(s, n) == SubSeq(s, 1, Min2(n, Len(s)))

\* the string c * n
Rep(c, n) == [i \in 1..n |-> c]

(***************************************************************************)
(* re.findall(r"\w+", s): the maximal runs of word characters of s, from   *)
(* left to right.  A repeated word is returned once per occurrence.        *)
(***************************************************************************)
FindallWords(s) ==
    LET n      == Len(s)
        starts == {i \in 1..n : IsWordChar(s[i]) /\ (i = 1 \/ ~IsWordChar(s[i-1]))}
        endOf(i) == SetMax({j \in i..n : \A k \in i..j : IsWordChar(s[k])})
        kth(k) == CHOOSE i \in starts : Cardinality({j \in starts : j < i}) = k - 1
    IN  [k \in 1..Cardinality(starts) |-> SubSeq(s, kth(k), endOf(kth(k)))]

(***************************************************************************)
(* str.count(tok): the number of non-overlapping occurrences of tok in     *)
(* text, scanning from the left.                                           *)
(***************************************************************************)
MatchPositions(text, tok) ==
    {i \in 1..(Len(text) - Len(tok) + 1) :
        text[i] = tok[1] /\ SubSeq(text, i, i + Len(tok) - 1) = tok}

\* the number of matches taken from the positions M, of length m, when each
\* match is the leftmost one that starts at or after position from
GreedyCount(M, from, m) ==
    LET last == IF M = {} THEN 0 ELSE SetMax(M)
        count[p \in 1..(last + m)] ==
            LET rest == {i \in M : i >= p}
            IN  IF rest = {} THEN 0 ELSE 1 + count[SetMin(rest) + m]
    IN  count[from]

StrCount(text, tok) ==
    IF tok = <<>> THEN Len(text) + 1
    ELSE GreedyCount(MatchPositions(text, tok), 1, Len(tok))

\* sum(text.count(tok) for tok in tokens if tok)
SumCounts(text, tokens) ==
    LET sum[n \in 0..Len(tokens)] ==
            IF n = 0 THEN 0
            ELSE (IF tokens[n] # <<>> THEN StrCount(text, tokens[n]) ELSE 0) + sum[n - 1]
    IN  sum[Len(tokens)]

\* _simple_score with the text left in its original case
simple_score_CaseSensitive(text, qry) ==
    SumCounts(text, FindallWords(Lower(qry)))

\* the number of occurrences of x in the sequence s
Multiplicity(s, x) == Cardinality({i \in 1..Len(s) : s[i] = x})

\* _simple_score with the tokens collected into a set
simple_score_TokenSet(text, qry) ==
    LET tokens == FindallWords(Lower(qry))
        first  == SelectSeq([i \in 1..Len(tokens) |-> <<i, tokens[i]>>],
                            LAMBDA p : \A j \in 1..(p[1]-1) : tokens[j] # p[2])
    IN  SumCounts(Lower(text), [i \in 1..Len(first) |-> first[i][2]])

\* _simple_score(text, query)
simple_score(text, qry) ==
    LET text_lower == Lower(text)
        tokens     == FindallWords(Lower(qry))
    IN  SumCounts(text_lower, tokens)

(***************************************************************************)
(* re.split on newline, whitespace run, newline (docs_rag.py:70): a        *)
(* separator starts at the leftmost                                        *)
(* newline that is followed, after whitespace only, by another newline,    *)
(* and, the whitespace run being greedy, extends to the last such newline. *)
(***************************************************************************)
SplitFrom(s, start) ==
    LET n  == Len(s)
        NL == {i \in 1..n : s[i] = "\n"}
        closeOf(i) == {j \in NL : j > i /\ \A k \in (i+1)..(j-1) : s[k] \in Whitespace}
        opens == {i \in NL : closeOf(i) # {}}
        pieces[from \in 1..(n + 1)] ==
            LET later == {i \in opens : i >= from}
            IN  IF later = {} THEN << SubSeq(s, from, n) >>
                ELSE << SubSeq(s, from, SetMin(later) - 1) >>
                     \o pieces[SetMax(closeOf(SetMin(later))) + 1]
    IN  pieces[start]

SplitParagraphs(content) == SplitFrom(content, 1)

(***************************************************************************)
(* list.sort(key=lambda x: x["score"], reverse=True): a stable sort, so    *)
(* elements of equal score keep their relative order.                      *)
(***************************************************************************)
\* the sort with the order of the key inverted
SortByScoreDesc_Ascending(s) ==
    LET n == Len(s)
        rank(i) == 1 + Cardinality({j \in 1..n :
                        \/ s[j].score < s[i].score
                        \/ (s[j].score = s[i].score /\ j < i)})
    IN  [k \in 1..n |-> s[CHOOSE i \in 1..n : rank(i) = k]]

\* an ascending sort followed by a reversal: equal scores come out reversed
SortByScoreDesc_TiesReversed(s) ==
    LET n == Len(s)
        rank(i) == 1 + Cardinality({j \in 1..n :
                        \/ s[j].score > s[i].score
                        \/ (s[j].score = s[i].score /\ j > i)})
    IN  [k \in 1..n |-> s[CHOOSE i \in 1..n : rank(i) = k]]

SortByScoreDesc(s) ==
    LET n == Len(s)
        rank(i) == 1 + Cardinality({j \in 1..n :
                        \/ s[j].score > s[i].score
                        \/ (s[j].score = s[i].score /\ j < i)})
    IN  [k \in 1..n |-> s[CHOOSE i \in 1..n : rank(i) = k]]

\* the elements of the set of indices K, by increasing index
SeqOfIndices(K) ==
    LET kth(k) == CHOOSE i \in K : Cardinality({j \in K : j < i}) = k - 1
    IN  [k \in 1..Cardinality(K) |-> kth(k)]

TruncationMarker == <<".", ".", ".">>

\* the truncation with the comparison >= instead of >
Truncate_AtLimit(para_stripped) ==
    IF Len(para_stripped) >= SnippetLimit
    THEN Prefix(para_stripped, SnippetLimit) \o TruncationMarker
    ELSE para_stripped

\* the truncation that makes room for the marker within the limit
Truncate_MarkerInside(para_stripped) ==
    IF Len(para_stripped) > SnippetLimit
    THEN Prefix(para_stripped, SnippetLimit - Len(TruncationMarker)) \o TruncationMarker
    ELSE para_stripped

\* docs_rag.py:83-84: the snippet text of a trimmed paragraph
Truncate(para_stripped) ==
    IF Len(para_stripped) > SnippetLimit
    THEN Prefix(para_stripped, SnippetLimit) \o TruncationMarker
    ELSE para_stripped

\* the score taken after the truncation
paragraph_score_AfterTruncation(para_stripped, qry) ==
    simple_score(Truncate(para_stripped), qry)

\* docs_rag.py:78: the score of a trimmed paragraph
paragraph_score(para_stripped, qry) == simple_score(para_stripped, qry)

\* the filter that drops negative scores only
keeps_paragraph_ZeroKept(score) == ~(score < 0)

\* docs_rag.py:79-80: a paragraph of score <= 0 is skipped
keeps_paragraph(score) == ~(score <= 0)

\* the ranking without the slice
rank_and_cap_NoCap(snips, max_snippets) == SortByScoreDesc(snips)

\* docs_rag.py:95-96: sort by score, descending, and keep max_snippets
rank_and_cap(snips, max_snippets) == Prefix(SortByScoreDesc(snips), max_snippets)

(***************************************************************************)
(* Outcomes of a call: a returned value or a raised exception.             *)
(***************************************************************************)
Returns(v) == [raised |-> FALSE, value |-> v]
Raises(e)  == [raised |-> TRUE,  value |-> e]

\* path.read_text(encoding="utf-8", errors="ignore")
read_text(f) ==
    IF f.kind = "file" /\ f.readable THEN Returns(f.content)
    ELSE Raises("OSError")

\* the handler without the except clause
on_read_error_Propagates(e) == Raises(e)

\* docs_rag.py:66-67: except OSError: return []
on_read_error(e) == Returns(<<>>)

(***************************************************************************)
(* _search_in_file(path, query, max_snippets) on the file entry f found at *)
(* path: the outcome of the call.  A snippet is the dict {file, score,     *)
(* snippet} of the code; the fields src (the trimmed paragraph before      *)
(* truncation) and para (the ordinal of the paragraph in the file) are     *)
(* history fields that only the properties read.                           *)
(***************************************************************************)
search_in_file(path, f, qry, max_snippets) ==
    IF read_text(f).raised THEN on_read_error(read_text(f).value)
    ELSE
    LET raw_paragraphs == SplitParagraphs(read_text(f).value)
        stripped == AsSeq([k \in 1..Len(raw_paragraphs) |-> Strip(raw_paragraphs[k])])
        scores   == AsSeq([k \in 1..Len(raw_paragraphs) |->
                        IF stripped[k] = <<>> THEN 0
                        ELSE paragraph_score(stripped[k], qry)])
        kept     == SeqOfIndices({k \in 1..Len(raw_paragraphs) :
                        stripped[k] # <<>> /\ keeps_paragraph(scores[k])})
        snips    == AsSeq([x \in 1..Len(kept) |->
                        [file    |-> path,
                         score   |-> scores[kept[x]],
                         snippet |-> Truncate(stripped[kept[x]]),
                         src     |-> stripped[kept[x]],
                         para    |-> kept[x]]])
    IN  Returns(rank_and_cap(snips, max_snippets))

(***************************************************************************)
(* Texts of the model: words, paragraphs and documents.                    *)
(***************************************************************************)
W_error   == <<"e", "r", "r", "o", "r">>
W_Error   == <<"E", "r", "r", "o", "r">>
W_ERROR   == <<"E", "R", "R", "O", "R">>
W_timeout == <<"t", "i", "m", "e", "o", "u", "t">>
SP        == <<" ">>
BlankLine == <<"\n", "\n">>
WideBlank == <<"\n", " ", "\t", "\n", "\n">>

\* "error timeout error"
ParaA == W_error \o SP \o W_timeout \o SP \o W_error
\* "Error"
ParaOne == W_Error
\* "Error\nerror": two lines of one paragraph
ParaTwoLines == W_Error \o <<"\n">> \o W_error
\* "error - Error"
ParaTwoB == W_error \o <<" ", "-", " ">> \o W_Error
\* "error: ERROR error"
ParaThree == W_error \o <<":", " ">> \o W_ERROR \o SP \o W_error
\* "timeout"
ParaNone == W_timeout
\* 612 characters, two of the three occurrences of "error" after character 600
ParaLong == W_error \o SP \o Rep("x", SnippetLimit - 6) \o SP \o W_error \o SP \o W_error
\* exactly 600 characters
Para600 == W_Error \o SP \o Rep("x", SnippetLimit - 6)
\* 601 characters, the second "error" ending at the character after the limit
Para601 == W_error \o SP \o Rep("x", SnippetLimit - 10) \o W_error

DocA == ParaA \o <<"\n">>
DocB == <<" ", " ">> \o ParaTwoLines \o BlankLine \o ParaLong \o WideBlank
        \o ParaA \o BlankLine \o ParaThree \o <<" ">> \o BlankLine \o ParaNone
        \o BlankLine \o ParaTwoB \o <<"\n">>
DocC == ParaOne \o BlankLine \o Para600 \o BlankLine \o <<"\t">> \o Para601

DocPool == {DocA, DocB, DocC}

\* the queries the callers send
Q_error == W_error
Q_twice == W_error \o SP \o W_error
Q_mixed == W_ERROR \o <<",", " ">> \o W_timeout
Q_bang  == <<"!", "!", "!">>
Q_xyz   == <<"x", "y", "z">>

QueryPool == {Q_error, Q_twice, Q_mixed, Q_bang, Q_xyz}

\* the values of max_results the callers send, within ge=1, le=20
MaxResultsPool == {1, 3, 5, MaxResultsLe}

(***************************************************************************)
(* The filesystem under the documentation root.  A path of the model is    *)
(* the name of an entry relative to the root; DocPaths are the names that  *)
(* can hold a document, OtherPaths the entries the scan has to leave out,   *)
(* FaultPaths the entries whose stat() can fail.                           *)
(***************************************************************************)
PathPool == <<"a.md", "sub/README.MD", "guide.rst">>

DocPaths == {PathPool[i] : i \in 1..Min2(MaxFiles, Len(PathPool))}

OtherPaths == {"notes.py", "archive.txt"}

FaultPaths == {"locked/x.md"}

Paths == DocPaths \cup OtherPaths \cup FaultPaths

\* Path.suffix
PathSuffix ==
    ("a.md" :> ".md") @@ ("sub/README.MD" :> ".MD") @@ ("guide.rst" :> ".rst")
    @@ ("notes.py" :> ".py") @@ ("archive.txt" :> ".txt")
    @@ ("locked/x.md" :> ".md")

\* str.lower() on a suffix
SuffixLower(sfx) == IF sfx = ".MD" THEN ".md" ELSE sfx

\* _get_docs_dir(): the resolved root
DocsDir == "/srv/docs"

\* str(path) of a path the scan yields: rglob yields paths that start with
\* the root
path_str(path) == DocsDir \o "/" \o path

\* str(p.relative_to(docs_dir)) of a path the scan yields
relative_to_docs_dir(path) == path

Absent     == [kind |-> "absent", readable |-> FALSE, content |-> <<>>]
Unreadable == [kind |-> "file",   readable |-> FALSE, content |-> <<>>]
Directory  == [kind |-> "dir",    readable |-> FALSE, content |-> <<>>]
RegularFile(c) == [kind |-> "file", readable |-> TRUE, content |-> c]

\* an entry of a directory that can be listed but not searched: stat() on
\* the entry fails with EACCES
NoStat     == [kind |-> "nostat", readable |-> FALSE, content |-> <<>>]

FileStates == {Absent, Unreadable} \cup {RegularFile(c) : c \in DocPool}

\* the entries a path of the model can hold
EntryStates == FileStates \cup {Directory, NoStat}

(***************************************************************************)
(* The results of _search_in_file(f, query, max_snippets=3) for the file   *)
(* entries and the queries of the model, by file entry and query: a        *)
(* constant, so that the search of a file is evaluated once per entry and  *)
(* query and not once per state.  The path is filled in by search_file.    *)
(***************************************************************************)
SearchInFileTable ==
    [f \in EntryStates |->
        [q \in QueryPool |-> search_in_file("", f, q, PerFileSnippets)]]

VARIABLES
    root_is_dir,    \* base.exists() and base.is_dir()
    fs,             \* path -> file entry
    pc,             \* position of the call
    tool,           \* the entry point called
    cap_given,      \* the caller passed the cap
    query,          \* argument query
    max_results,    \* argument max_results
    files,          \* local files: the scan result
    idx,            \* position of the for loop over files
    snippets,       \* local snippets: the last result of _search_in_file
    all_snippets,   \* local all_snippets
    result,         \* the list _search_docs_internal returned
    tool_result,    \* what the tool returned or raised
    ctx_errors,     \* the messages the running tool has sent to ctx.error
    memo,           \* what docs_rag.py keeps from one call to the next
    other,          \* the locals of a second, concurrent search
    token,          \* GITHUB_TOKEN is set
    tracker,        \* the ticket in the tracker and the issues made from it
    tcall,          \* the running call of a ticket tool: position and locals
    http_log,       \* the requests the running ticket tool has sent
    t_result        \* what the ticket tool returned or raised

docs_vars == <<root_is_dir, fs, pc, tool, cap_given, query, max_results, files,
               idx, snippets, all_snippets, result, tool_result, memo, other>>

ticket_vars == <<token, tracker, tcall, http_log, t_result>>

vars == <<docs_vars, ctx_errors, ticket_vars>>

\* docs_rag.py:107: _search_in_file(f, query, max_snippets=3) for the path f
search_file(path, q) ==
    LET out == SearchInFileTable[fs[path]][q]
    IN  IF out.raised THEN out
        ELSE Returns([k \in 1..Len(out.value) |->
                         [out.value[k] EXCEPT !.file = path_str(path)]])

\* all orders in which a directory walk can produce the set S
Orders(S) ==
    {f \in [1..Cardinality(S) -> S] : \A i, j \in 1..Cardinality(S) : i # j => f[i] # f[j]}

\* docs_rag.py:46: path.is_file() on an entry whose stat() fails raises
\* PermissionError in the Python versions that propagate it and is False in
\* the others
stat_failures ==
    IF \E path \in Paths : fs[path].kind = "nostat"
    THEN {Raises("PermissionError")}
    ELSE {}

\* the scan that does not test the root
iter_doc_files_MissingRootRaises ==
    IF ~root_is_dir THEN {Raises("FileNotFoundError")}
    ELSE LET exts == {".md", ".rst", ".txt"}
         IN  {Returns(o) : o \in Orders({path \in Paths :
                 fs[path].kind = "file" /\ SuffixLower(PathSuffix[path]) \in exts})}
             \cup stat_failures

\* the scan that compares the suffix as it is spelled
iter_doc_files_CaseSensitive ==
    IF ~root_is_dir THEN {Returns(<<>>)}
    ELSE LET exts == {".md", ".rst", ".txt"}
         IN  {Returns(o) : o \in Orders({path \in Paths :
                 fs[path].kind = "file" /\ PathSuffix[path] \in exts})}
             \cup stat_failures

\* _iter_doc_files(): the possible outcomes; rglob gives no order guarantee
iter_doc_files ==
    IF ~root_is_dir THEN {Returns(<<>>)}
    ELSE LET exts == {".md", ".rst", ".txt"}
         IN  {Returns(o) : o \in Orders({path \in Paths :
                 fs[path].kind = "file" /\ SuffixLower(PathSuffix[path]) \in exts})}
             \cup stat_failures

(***************************************************************************)
(* Values the tools return.  A text is the sequence of its pieces; the     *)
(* fixed wording of the code is one piece each, rendered in English.       *)
(***************************************************************************)
\* Python None
PyNone == [type |-> "NoneType"]

\* a Python str as a field of a dict that can also hold None
PyStr(text) == [type |-> "str", value |-> text]

NoResult == [kind |-> "none"]

\* utils.py: ToolResult(content=[TextContent(type="text", text=text)], ...)
ToolResult(text, structured, meta) ==
    [kind               |-> "ToolResult",
     content            |-> <<[type |-> "text", text |-> text]>>,
     structured_content |-> structured,
     meta               |-> meta]

\* "\n".join(lines)
Join(lines) ==
    LET joined[n \in 0..Len(lines)] ==
            IF n = 0 THEN <<>>
            ELSE IF n = 1 THEN lines[1]
            ELSE joined[n - 1] \o <<"\n">> \o lines[n]
    IN  joined[Len(lines)]

\* f"{query!r}"
Repr(q) == <<"'">> \o q \o <<"'">>

\* the dict {file, score, snippet} of a snippet
SnippetDict(s) == [file |-> s.file, score |-> s.score, snippet |-> s.snippet]

SnippetDicts(snips) == [k \in 1..Len(snips) |-> SnippetDict(snips[k])]

NotFoundOrEmpty == "Documentation directory not found or empty: "

\* docs_rag.py:132-141: the text of list_docs
list_docs_text(fl) ==
    IF fl = <<>>
    THEN Join(<< <<NotFoundOrEmpty, DocsDir>>,
                 <<"Create the docs/ folder and add .md / .rst / .txt files to it.">> >>)
    ELSE Join(<< <<"Documentation files found:">> >>
              \o [i \in 1..Len(fl) |-> <<"- ", relative_to_docs_dir(fl[i])>>])

\* list_docs that always renders the listing
list_docs_return_NoEmptyBranch(fl) ==
    ToolResult(Join(<< <<"Documentation files found:">> >>
                    \o [i \in 1..Len(fl) |-> <<"- ", relative_to_docs_dir(fl[i])>>]),
               [docs_dir |-> DocsDir,
                files    |-> [i \in 1..Len(fl) |-> path_str(fl[i])]],
               PyNone)

\* list_docs whose prose lists str(p)
list_docs_return_ProseAbsolute(fl) ==
    ToolResult(IF fl = <<>> THEN list_docs_text(fl)
               ELSE Join(<< <<"Documentation files found:">> >>
                         \o [i \in 1..Len(fl) |-> <<"- ", path_str(fl[i])>>]),
               [docs_dir |-> DocsDir,
                files    |-> [i \in 1..Len(fl) |-> path_str(fl[i])]],
               PyNone)

\* docs_rag.py:143-149: the return of list_docs
list_docs_return(fl) ==
    ToolResult(list_docs_text(fl),
               [docs_dir |-> DocsDir,
                files    |-> [i \in 1..Len(fl) |-> path_str(fl[i])]],
               PyNone)

\* docs_rag.py:194-202: the text of search_docs
search_docs_text(q, snips) ==
    IF snips = <<>>
    THEN <<"For the query ">> \o Repr(q)
         \o <<" nothing was found in the documentation.">>
    ELSE Join(<< <<"Search results for the query ">> \o Repr(q) \o <<":">> >>
              \o [k \in 1..Len(snips) |->
                    <<"\n", "file ", snips[k].file, " (score=",
                      ToString(snips[k].score), "):", "\n">> \o snips[k].snippet])

\* search_docs that leaves structured_content out when nothing was found
search_docs_return_EmptyUnstructured(q, snips) ==
    ToolResult(search_docs_text(q, snips),
               IF snips = <<>> THEN PyNone ELSE [results |-> snips],
               [query |-> q])

\* search_docs that leaves meta out
search_docs_return_NoMeta(q, snips) ==
    ToolResult(search_docs_text(q, snips), [results |-> snips], PyNone)

\* docs_rag.py:206-210: the return of search_docs
search_docs_return(q, snips) ==
    ToolResult(search_docs_text(q, snips), [results |-> snips], [query |-> q])

\* docs_rag.py:263-266, 277-286: the text of answer_from_docs
answer_from_docs_text(q, snips) ==
    IF snips = <<>>
    THEN <<"The documentation has nothing for the query ">> \o Repr(q)
         \o <<". ", "The MCP server cannot answer from the documents.">>
    ELSE Join(<< <<"Below are documentation fragments that can be used to answer the question.">>,
                 <<"Question: ">> \o Repr(q),
                 <<>> >>
              \o [k \in 1..Len(snips) |->
                    <<"### Fragment ", ToString(k), " (score=",
                      ToString(snips[k].score), ", file=", snips[k].file,
                      "):", "\n">> \o snips[k].snippet \o <<"\n">>])

\* answer_from_docs whose answer is the empty string when nothing was found
answer_from_docs_return_EmptyString(q, snips) ==
    IF snips = <<>>
    THEN ToolResult(answer_from_docs_text(q, snips),
                    [answer |-> PyStr(<<>>), used_snippets |-> <<>>, query |-> q],
                    PyNone)
    ELSE ToolResult(answer_from_docs_text(q, snips),
                    [answer        |-> PyStr(answer_from_docs_text(q, snips)),
                     used_snippets |-> snips,
                     query         |-> q],
                    PyNone)

\* docs_rag.py:262-299: the two returns of answer_from_docs
answer_from_docs_return(q, snips) ==
    IF snips = <<>>
    THEN ToolResult(answer_from_docs_text(q, snips),
                    [answer |-> PyNone, used_snippets |-> <<>>, query |-> q],
                    PyNone)
    ELSE ToolResult(answer_from_docs_text(q, snips),
                    [answer        |-> PyStr(answer_from_docs_text(q, snips)),
                     used_snippets |-> snips,
                     query         |-> q],
                    PyNone)

\* what the entry point t makes of the list _search_docs_internal returned
tool_return(t, q, snips) ==
    CASE t = "search_docs"      -> search_docs_return(q, SnippetDicts(snips))
      [] t = "answer_from_docs" -> answer_from_docs_return(q, SnippetDicts(snips))
      [] OTHER                  -> NoResult

\* ErrorData(code=-32603, ...)
InternalError == -32603

\* the tools without the except clause
tool_failure_RawEscapes(t, e) == [kind |-> "raised", error |-> e]

\* docs_rag.py:151-158, 212-219, 301-308: except Exception: raise McpError;
\* a direct call of _search_docs_internal lets the exception through
tool_failure(t, e) ==
    IF t = "internal" THEN [kind |-> "raised", error |-> e]
    ELSE [kind |-> "McpError", code |-> InternalError, cause |-> e]

\* docs_rag.py:152, 213, 302: await ctx.error(...) in the handler of a tool
ctx_error_calls(t, e) == IF t = "internal" THEN <<>> ELSE <<e>>

\* no second search is running
OtherIdle ==
    [pc |-> "idle", query |-> <<>>, max_results |-> 0, files |-> <<>>,
     idx |-> 0, all_snippets |-> <<>>, result |-> <<>>]

\* the ticket nobody has touched and no call of a ticket tool
UntouchedTicket ==
    [state |-> "open", labels |-> <<>>, assignees |-> <<>>, comments |-> <<>>,
     issues |-> <<>>, pull_request |-> FALSE]

NoTicketCall == [pc |-> "idle", tool |-> "none"]

(***************************************************************************)
(* The calls.  The tools take the cap as max_results (search_docs) and as  *)
(* max_context_fragments (answer_from_docs); a caller that leaves it out   *)
(* gets the default of the function it calls.                              *)
(***************************************************************************)
SearchDocsDefault   == 5
AnswerDefault       == 5
AggregatorDefault   == 10

\* every entry point with the default of search_docs
default_cap_AllFive(t) == SearchDocsDefault

\* docs_rag.py:99, 169, 230: the default of the cap by entry point
default_cap(t) ==
    CASE t = "search_docs"      -> SearchDocsDefault
      [] t = "answer_from_docs" -> AnswerDefault
      [] OTHER                  -> AggregatorDefault

\* the calls of the model: entry point, whether the cap is passed, the cap
SearchCalls ==
    {[tool |-> "search_docs", given |-> TRUE, cap |-> m] : m \in MaxResultsPool}
    \cup {[tool |-> "search_docs",      given |-> FALSE, cap |-> 0],
          [tool |-> "answer_from_docs", given |-> TRUE,  cap |-> 3],
          [tool |-> "answer_from_docs", given |-> FALSE, cap |-> 0],
          [tool |-> "internal",         given |-> FALSE, cap |-> 0]}

NoDocsCall ==
    /\ pc = "idle"
    /\ tool = "none"
    /\ cap_given = FALSE
    /\ query = <<>>
    /\ max_results = 0
    /\ files = <<>>
    /\ idx = 0
    /\ snippets = <<>>
    /\ all_snippets = <<>>
    /\ result = <<>>
    /\ tool_result = NoResult

\* no call of a documentation tool is running
DocsAtRest ==
    /\ NoDocsCall
    /\ ctx_errors = <<>>
    /\ memo = <<>>
    /\ other = OtherIdle

\* no call of a ticket tool is running, on an untouched ticket
TicketsAtRest ==
    /\ token = TRUE
    /\ tracker = UntouchedTicket
    /\ tcall = NoTicketCall
    /\ http_log = <<>>
    /\ t_result = NoResult

Init ==
    /\ root_is_dir \in BOOLEAN
    /\ fs \in [Paths -> EntryStates]
    /\ \A path \in DocPaths : fs[path] \in FileStates
    /\ fs["notes.py"] = IF root_is_dir THEN RegularFile(DocA) ELSE Absent
    /\ fs["archive.txt"] = IF root_is_dir THEN Directory ELSE Absent
    /\ \A path \in FaultPaths : fs[path] = Absent
    /\ (~root_is_dir => \A path \in Paths : fs[path] = Absent)
    /\ DocsAtRest
    /\ TicketsAtRest

\* docs_rag.py:128-158: list_docs
ListDocs ==
    /\ pc = "idle"
    /\ tool' = "list_docs"
    /\ \E out \in iter_doc_files :
          IF out.raised
          THEN /\ pc' = "failed"
               /\ files' = <<>>
               /\ tool_result' = tool_failure("list_docs", out.value)
               /\ ctx_errors' = ctx_errors \o ctx_error_calls("list_docs", out.value)
          ELSE /\ pc' = "done"
               /\ files' = out.value
               /\ tool_result' = list_docs_return(out.value)
               /\ UNCHANGED ctx_errors
    /\ UNCHANGED <<root_is_dir, fs, cap_given, query, max_results, idx,
                   snippets, all_snippets, result>>
    /\ UNCHANGED <<memo, other, ticket_vars>>

\* docs_rag.py:99-104, 192, 257: the call and the scan
StartSearch(call, q) ==
    /\ pc = "idle"
    /\ tool' = call.tool
    /\ cap_given' = call.given
    /\ query' = q
    /\ max_results' = IF call.given THEN call.cap ELSE default_cap(call.tool)
    /\ \E out \in iter_doc_files :
          IF out.raised
          THEN /\ pc' = "failed"
               /\ files' = <<>>
               /\ tool_result' = tool_failure(call.tool, out.value)
               /\ ctx_errors' = ctx_errors \o ctx_error_calls(call.tool, out.value)
          ELSE /\ pc' = "loop"
               /\ files' = out.value
               /\ tool_result' = NoResult
               /\ UNCHANGED ctx_errors
    /\ idx' = 1
    /\ snippets' = <<>>
    /\ all_snippets' = <<>>
    /\ result' = <<>>
    /\ UNCHANGED <<root_is_dir, fs>>
    /\ UNCHANGED <<memo, other, ticket_vars>>

\* the iteration that removes a file it could not read
SearchNextFile_RemovesUnreadable ==
    /\ pc = "loop"
    /\ idx <= Len(files)
    /\ LET out == search_file(files[idx], query)
       IN  /\ snippets' = out.value
           /\ all_snippets' = all_snippets \o out.value
           /\ idx' = idx + 1
           /\ fs' = IF read_text(fs[files[idx]]).raised
                    THEN [fs EXCEPT ![files[idx]] = Absent]
                    ELSE fs
    /\ UNCHANGED <<root_is_dir, pc, tool, cap_given, query, max_results, files,
                   result, tool_result>>
    /\ UNCHANGED <<ctx_errors, memo, other, ticket_vars>>

\* the read of the file that remembers what it read in an earlier call
SearchNextFile_Memoized ==
    /\ pc = "loop"
    /\ idx <= Len(files)
    /\ LET path   == files[idx]
           entry  == IF path \in DOMAIN memo THEN memo[path] ELSE fs[path]
           out    == SearchInFileTable[entry][query]
           found  == [k \in 1..Len(out.value) |->
                         [out.value[k] EXCEPT !.file = path_str(path)]]
       IN  /\ memo' = [p \in DOMAIN memo \cup {path} |->
                          IF p = path THEN entry ELSE memo[p]]
           /\ snippets' = found
           /\ all_snippets' = all_snippets \o found
           /\ idx' = idx + 1
    /\ UNCHANGED <<root_is_dir, fs, pc, tool, cap_given, query, max_results,
                   files, result, tool_result>>
    /\ UNCHANGED <<ctx_errors, other, ticket_vars>>

\* docs_rag.py:106-108: one iteration of the loop over files
SearchNextFile ==
    /\ pc = "loop"
    /\ idx <= Len(files)
    /\ LET out == search_file(files[idx], query)
       IN  IF out.raised
           THEN /\ pc' = "failed"
                /\ tool_result' = tool_failure(tool, out.value)
                /\ ctx_errors' = ctx_errors \o ctx_error_calls(tool, out.value)
                /\ UNCHANGED <<snippets, all_snippets, idx>>
           ELSE /\ snippets' = out.value
                /\ all_snippets' = all_snippets \o out.value
                /\ idx' = idx + 1
                /\ UNCHANGED <<pc, tool_result, ctx_errors>>
    /\ UNCHANGED <<root_is_dir, fs, tool, cap_given, query, max_results, files,
                   result>>
    /\ UNCHANGED <<memo, other, ticket_vars>>

\* the return without the slice
search_docs_internal_return_NoSlice(collected, m) == SortByScoreDesc(collected)

\* docs_rag.py:110-111: the global sort (in place) and the slice
search_docs_internal_return(collected, m) == Prefix(SortByScoreDesc(collected), m)

\* docs_rag.py:110-111 and the return of the tool that made the call
SortAndReturn ==
    /\ pc = "loop"
    /\ idx > Len(files)
    /\ all_snippets' = SortByScoreDesc(all_snippets)
    /\ result' = search_docs_internal_return(all_snippets, max_results)
    /\ tool_result' = tool_return(tool, query, result')
    /\ pc' = "done"
    /\ UNCHANGED <<root_is_dir, fs, tool, cap_given, query, max_results, files,
                   idx, snippets>>
    /\ UNCHANGED <<ctx_errors, memo, other, ticket_vars>>

\* the caller has taken the result; the locals of the call are gone
CallEnds ==
    /\ pc \in {"done", "failed"}
    /\ pc' = "idle"
    /\ tool' = "none"
    /\ cap_given' = FALSE
    /\ query' = <<>>
    /\ max_results' = 0
    /\ files' = <<>>
    /\ idx' = 0
    /\ snippets' = <<>>
    /\ all_snippets' = <<>>
    /\ result' = <<>>
    /\ tool_result' = NoResult
    /\ ctx_errors' = <<>>
    /\ UNCHANGED <<root_is_dir, fs>>
    /\ UNCHANGED <<memo, other, ticket_vars>>

Next ==
    \/ ListDocs
    \/ \E call \in SearchCalls, q \in QueryPool : StartSearch(call, q)
    \/ SearchNextFile
    \/ SortAndReturn
    \/ CallEnds

Spec == Init /\ [][Next]_vars

TypeOK ==
    /\ pc \in {"idle", "loop", "done", "failed"}
    /\ tool \in {"none", "list_docs", "search_docs", "answer_from_docs", "internal"}
    /\ cap_given \in BOOLEAN
    /\ idx \in 0..(MaxFiles + 1)
    /\ Len(files) <= MaxFiles

(***************************************************************************)
(* Searches over a document tree that changes between the calls: files are *)
(* created, rewritten and deleted while no call is running.                *)
(***************************************************************************)
\* the searches of this specification
FsCalls ==
    {[tool |-> "internal",    given |-> FALSE, cap |-> 0],
     [tool |-> "search_docs", given |-> TRUE,  cap |-> 1]}

FsQueries == {Q_error, Q_mixed}

InitFs ==
    /\ root_is_dir = TRUE
    /\ fs = [path \in Paths |->
                IF path = "a.md" THEN RegularFile(DocA)
                ELSE IF path = "notes.py" THEN RegularFile(DocA)
                ELSE IF path = "archive.txt" THEN Directory
                ELSE Absent]
    /\ DocsAtRest
    /\ TicketsAtRest

\* a file is created or rewritten under the root
WriteFile(path, c) ==
    /\ pc = "idle"
    /\ fs[path] # RegularFile(c)
    /\ fs' = [fs EXCEPT ![path] = RegularFile(c)]
    /\ UNCHANGED <<root_is_dir, pc, tool, cap_given, query, max_results, files,
                   idx, snippets, all_snippets, result, tool_result>>
    /\ UNCHANGED <<ctx_errors, memo, other, ticket_vars>>

\* a file is deleted
DeleteFile(path) ==
    /\ pc = "idle"
    /\ fs[path].kind = "file"
    /\ fs' = [fs EXCEPT ![path] = Absent]
    /\ UNCHANGED <<root_is_dir, pc, tool, cap_given, query, max_results, files,
                   idx, snippets, all_snippets, result, tool_result>>
    /\ UNCHANGED <<ctx_errors, memo, other, ticket_vars>>

NextFs ==
    \/ \E path \in DocPaths, c \in DocPool : WriteFile(path, c)
    \/ \E path \in DocPaths : DeleteFile(path)
    \/ \E call \in FsCalls, q \in FsQueries : StartSearch(call, q)
    \/ SearchNextFile
    \/ SortAndReturn
    \/ CallEnds

SpecFs == InitFs /\ [][NextFs]_vars

(***************************************************************************)
(* Two searches at once over one unchanged document tree: the call of the  *)
(* variables above and a second call of _search_docs_internal, whose       *)
(* locals are the fields of other.  Their steps interleave in any order.   *)
(***************************************************************************)
ConcCalls ==
    {[tool |-> "internal",    given |-> FALSE, cap |-> 0],
     [tool |-> "search_docs", given |-> TRUE,  cap |-> 1]}

ConcQueries == {Q_error, Q_mixed}

OtherQueries == {Q_error, Q_twice}

OtherCaps == {3, MaxResultsLe}

InitConc ==
    /\ root_is_dir = TRUE
    /\ fs = [path \in Paths |->
                IF path = "a.md" THEN RegularFile(DocB)
                ELSE IF path = "sub/README.MD" THEN RegularFile(DocC)
                ELSE IF path = "guide.rst" THEN RegularFile(DocA)
                ELSE IF path = "notes.py" THEN RegularFile(DocA)
                ELSE IF path = "archive.txt" THEN Directory
                ELSE Absent]
    /\ DocsAtRest
    /\ TicketsAtRest

\* docs_rag.py:99-104: the second call and its scan
OtherStart(q, m) ==
    /\ other.pc = "idle"
    /\ \E out \in iter_doc_files :
          other' = IF out.raised
                   THEN [other EXCEPT !.pc = "failed", !.query = q, !.max_results = m]
                   ELSE [pc |-> "loop", query |-> q, max_results |-> m,
                         files |-> out.value, idx |-> 1,
                         all_snippets |-> <<>>, result |-> <<>>]
    /\ UNCHANGED <<root_is_dir, fs, pc, tool, cap_given, query, max_results,
                   files, idx, snippets, all_snippets, result, tool_result>>
    /\ UNCHANGED <<ctx_errors, memo, ticket_vars>>

\* the second call collecting into the list of the first
OtherNextFile_SharedList ==
    /\ other.pc = "loop"
    /\ other.idx <= Len(other.files)
    /\ LET out == search_file(other.files[other.idx], other.query)
       IN  /\ all_snippets' = all_snippets \o out.value
           /\ other' = [other EXCEPT !.all_snippets = all_snippets \o out.value,
                                     !.idx = @ + 1]
    /\ UNCHANGED <<root_is_dir, fs, pc, tool, cap_given, query, max_results,
                   files, idx, snippets, result, tool_result>>
    /\ UNCHANGED <<ctx_errors, memo, ticket_vars>>

\* docs_rag.py:106-108: one iteration of the loop of the second call
OtherNextFile ==
    /\ other.pc = "loop"
    /\ other.idx <= Len(other.files)
    /\ LET out == search_file(other.files[other.idx], other.query)
       IN  other' = IF out.raised
                    THEN [other EXCEPT !.pc = "failed"]
                    ELSE [other EXCEPT !.all_snippets = @ \o out.value,
                                       !.idx = @ + 1]
    /\ UNCHANGED <<root_is_dir, fs, pc, tool, cap_given, query, max_results,
                   files, idx, snippets, all_snippets, result, tool_result>>
    /\ UNCHANGED <<ctx_errors, memo, ticket_vars>>

\* docs_rag.py:110-111: the sort and the slice of the second call
OtherReturn ==
    /\ other.pc = "loop"
    /\ other.idx > Len(other.files)
    /\ other' = [other EXCEPT
                    !.all_snippets = SortByScoreDesc(@),
                    !.result = search_docs_internal_return(other.all_snippets,
                                                           other.max_results),
                    !.pc = "done"]
    /\ UNCHANGED <<root_is_dir, fs, pc, tool, cap_given, query, max_results,
                   files, idx, snippets, all_snippets, result, tool_result>>
    /\ UNCHANGED <<ctx_errors, memo, ticket_vars>>

\* the caller of the second call has taken the result
OtherEnds ==
    /\ other.pc \in {"done", "failed"}
    /\ other' = OtherIdle
    /\ UNCHANGED <<root_is_dir, fs, pc, tool, cap_given, query, max_results,
                   files, idx, snippets, all_snippets, result, tool_result>>
    /\ UNCHANGED <<ctx_errors, memo, ticket_vars>>

NextConc ==
    \/ \E call \in ConcCalls, q \in ConcQueries : StartSearch(call, q)
    \/ SearchNextFile
    \/ SortAndReturn
    \/ CallEnds
    \/ \E q \in OtherQueries, m \in OtherCaps : OtherStart(q, m)
    \/ OtherNextFile
    \/ OtherReturn
    \/ OtherEnds

SpecConc == InitConc /\ [][NextConc]_vars

(***************************************************************************)
(* The tools over a tree in which the scan can fail: an entry whose stat() *)
(* is refused makes _iter_doc_files raise from inside the tool.            *)
(***************************************************************************)
FaultFileStates == {Unreadable, RegularFile(DocA), RegularFile(DocB)}

FaultCalls ==
    {[tool |-> "search_docs",      given |-> FALSE, cap |-> 0],
     [tool |-> "answer_from_docs", given |-> FALSE, cap |-> 0],
     [tool |-> "internal",         given |-> FALSE, cap |-> 0]}

FaultQueries == {Q_error, Q_xyz}

InitFault ==
    /\ root_is_dir = TRUE
    /\ fs \in [Paths -> EntryStates]
    /\ \A path \in DocPaths : fs[path] \in FaultFileStates
    /\ fs["notes.py"] = RegularFile(DocA)
    /\ fs["archive.txt"] = Directory
    /\ \A path \in FaultPaths : fs[path] \in {Absent, NoStat}
    /\ DocsAtRest
    /\ TicketsAtRest

NextFault ==
    \/ ListDocs
    \/ \E call \in FaultCalls, q \in FaultQueries : StartSearch(call, q)
    \/ SearchNextFile
    \/ SortAndReturn
    \/ CallEnds

SpecFault == InitFault /\ [][NextFault]_vars

(***************************************************************************)
(* The ticket tools (close_ticket.py, update_ticket_meta.py,               *)
(* post_ticket_reply.py, create_subtasks_from_ticket.py).  A label is the  *)
(* sequence of its characters.  An optional argument is PyNone or PyStr of *)
(* its text, a list argument PyNone or PyList of its elements.             *)
(***************************************************************************)
MaxSuggested == 3
MaxTrackerWrites == 1

\* ErrorData(code=-32602, ...)
InvalidParams == -32602

PyList(elems) == [type |-> "list", value |-> elems]

\* bool(x) of an optional string: None and "" are false
Truthy(opt) == opt # PyNone /\ opt.value # <<>>

\* the labels, priorities and comments of the tickets and calls
Texts ==
    [bug          |-> <<"b", "u", "g">>,
     docs         |-> <<"d", "o", "c", "s">>,
     resolved     |-> <<"r", "e", "s", "o", "l", "v", "e", "d">>,
     wontfix      |-> <<"w", "o", "n", "t", "f", "i", "x">>,
     priority_low |-> <<"p", "r", "i", "o", "r", "i", "t", "y", ":", " ", "l", "o", "w">>,
     Priority_top |-> <<"P", "r", "i", "o", "r", "i", "t", "y", ":", "t", "o", "p">>,
     high         |-> <<"h", "i", "g", "h">>,
     thanks       |-> <<"o", "k">>]

\* the label lists a ticket can start with
LabelLists ==
    {<<>>,
     <<Texts.bug>>,
     <<Texts.bug, Texts.resolved, Texts.docs>>,
     <<Texts.Priority_top, Texts.bug, Texts.priority_low, Texts.bug>>}

\* str.startswith
StartsWith(s, prefix) ==
    Len(s) >= Len(prefix) /\ SubSeq(s, 1, Len(prefix)) = prefix

\* "priority:"
PriorityPrefix == <<"p", "r", "i", "o", "r", "i", "t", "y", ":">>

\* the closing labels that append the resolution label without looking
close_labels_NoMembershipTest(current_labels, resolution_label) ==
    IF Truthy(resolution_label)
    THEN Append(current_labels, resolution_label.value)
    ELSE current_labels

\* close_ticket.py:97-99: new_labels
close_labels(current_labels, resolution_label) ==
    IF /\ Truthy(resolution_label)
       /\ \A i \in 1..Len(current_labels) : current_labels[i] # resolution_label.value
    THEN Append(current_labels, resolution_label.value)
    ELSE current_labels

\* the priority filter that compares the label as it is spelled
update_labels_CaseSensitive(current_labels, labels, priority) ==
    LET base == IF labels # PyNone THEN labels.value ELSE current_labels
    IN  IF Truthy(priority)
        THEN Append(SelectSeq(base, LAMBDA l : ~StartsWith(l, PriorityPrefix)),
                    PriorityPrefix \o <<" ">> \o priority.value)
        ELSE base

\* update_ticket_meta.py:100-111: new_labels
update_labels(current_labels, labels, priority) ==
    LET base == IF labels # PyNone THEN labels.value ELSE current_labels
    IN  IF Truthy(priority)
        THEN Append(SelectSeq(base, LAMBDA l : ~StartsWith(Lower(l), PriorityPrefix)),
                    PriorityPrefix \o <<" ">> \o priority.value)
        ELSE base

\* update_ticket_meta.py:113-123: payload, a dict from its keys
update_payload(current_labels, labels, priority, assignee) ==
    LET keys == (IF labels # PyNone \/ priority # PyNone THEN {"labels"} ELSE {})
                \cup (IF assignee # PyNone THEN {"assignees"} ELSE {})
    IN  [k \in keys |->
            IF k = "labels" THEN update_labels(current_labels, labels, priority)
            ELSE IF assignee.value = <<>> THEN <<>> ELSE <<assignee.value>>]

\* an exception a ticket tool raises or meets
Exception(type, code) == [type |-> type, code |-> code]

\* close_ticket.py:132-156 and the same three handlers of the other ticket
\* tools: what leaves the tool for an exception raised in its body
ticket_failure(exc) ==
    CASE exc.type = "HTTPStatusError" -> [kind |-> "McpError", code |-> InternalError]
      [] exc.type = "ValueError"      -> [kind |-> "McpError", code |-> InvalidParams]
      [] OTHER                        -> [kind |-> "McpError", code |-> InternalError]

\* a request of the running tool and whether the tracker accepted it
Request(method, target, ok, body) ==
    [method |-> method, target |-> target, ok |-> ok, body |-> body]

\* the arguments of the calls of the ticket tools
CloseArgs ==
    [final_comment    : {PyNone, PyStr(<<>>), PyStr(Texts.thanks)},
     resolution_label : {PyStr(Texts.resolved), PyStr(Texts.wontfix), PyStr(<<>>), PyNone}]

UpdateArgs ==
    [priority : {PyNone, PyStr(<<>>), PyStr(Texts.high)},
     labels   : {PyNone, PyList(<<>>), PyList(<<Texts.docs, Texts.Priority_top, Texts.priority_low>>)},
     assignee : {PyNone, PyStr(<<"a", "l">>)}]

\* max_subtasks: Field(default=5, ge=1, le=20)
MaxSubtasksDefault == 5

SubtaskArgs == [max_subtasks : {1, 2, MaxSubtasksDefault}, dry_run : BOOLEAN]

\* the subtasks the model can suggest, by title
SuggestionPool == [i \in 1..MaxSuggested |-> i]

\* a call of a ticket tool at statement pc
TicketCall(pc_, tool_, args, current_labels, subtasks, created) ==
    [pc |-> pc_, tool |-> tool_, args |-> args, current_labels |-> current_labels,
     subtasks |-> subtasks, created |-> created]

InitTickets ==
    /\ root_is_dir = FALSE
    /\ fs = [path \in Paths |-> Absent]
    /\ DocsAtRest
    /\ token \in BOOLEAN
    /\ \E ls \in LabelLists, pr \in BOOLEAN :
           tracker = [UntouchedTicket EXCEPT !.labels = ls, !.pull_request = pr]
    /\ tcall = NoTicketCall
    /\ http_log = <<>>
    /\ t_result = NoResult

\* meta={"repo": repo}
RepoMeta == [repo |-> "owner/repo"]

\* the running call ends in its handler for exc, after the ctx.error calls
\* errs; the tracker stays as the requests so far left it
TicketFails(exc, errs) ==
    /\ tcall' = [tcall EXCEPT !.pc = "failed"]
    /\ t_result' = ticket_failure(exc)
    /\ ctx_errors' = ctx_errors \o errs

\* the first statements of a ticket tool: require_env("GITHUB_REPO"),
\* os.getenv("GITHUB_TOKEN") and the check of the token
TicketStart(tool_, args, first_pc) ==
    /\ tcall.pc = "idle"
    /\ Len(tracker.comments) + Len(tracker.issues) < MaxTrackerWrites
    /\ \E repo_set \in BOOLEAN :
        IF ~repo_set
        THEN /\ tcall' = TicketCall("failed", tool_, args, <<>>, <<>>, <<>>)
             /\ t_result' = ticket_failure(Exception("ValueError", 0))
             /\ ctx_errors' = ctx_errors \o <<"config">>
        ELSE IF ~token /\ ~(tool_ = "create_subtasks_from_ticket" /\ args.dry_run)
        THEN /\ tcall' = TicketCall("failed", tool_, args, <<>>, <<>>, <<>>)
             /\ t_result' = ticket_failure(Exception("McpError", InvalidParams))
             /\ ctx_errors' = ctx_errors \o <<"token", "unexpected">>
        ELSE /\ tcall' = TicketCall(first_pc, tool_, args, <<>>, <<>>, <<>>)
             /\ UNCHANGED <<t_result, ctx_errors>>
    /\ UNCHANGED <<docs_vars, token, tracker, http_log>>

\* post_ticket_reply called by another tool (close_ticket.py:89-93,
\* create_subtasks_from_ticket.py:234-238): the POST of the comment; a
\* refused POST leaves the reply tool as McpError, which the handler for
\* Exception of the calling tool reports again
NestedReply(text, next_call, next_result) ==
    \E ok \in BOOLEAN :
        /\ http_log' = Append(http_log, Request("POST", "comment", ok, text))
        /\ IF ok
           THEN /\ tracker' = [tracker EXCEPT
                        !.comments = Append(@, [by |-> tcall.tool, text |-> text])]
                /\ tcall' = next_call
                /\ t_result' = next_result
                /\ UNCHANGED ctx_errors
           ELSE /\ tcall' = [tcall EXCEPT !.pc = "failed"]
                /\ t_result' = ticket_failure(Exception("McpError",
                                    ticket_failure(Exception("HTTPStatusError", 0)).code))
                /\ ctx_errors' = ctx_errors \o <<"http", "unexpected">>
                /\ UNCHANGED tracker

\* close_ticket.py:19-48
CloseTicketStart ==
    \E args \in CloseArgs : TicketStart("close_ticket", args, "fetch")

\* close_ticket.py:76-84: GET of the issue, current_labels
CloseFetch ==
    /\ tcall.pc = "fetch"
    /\ tcall.tool = "close_ticket"
    /\ \E ok \in BOOLEAN :
        /\ http_log' = Append(http_log, Request("GET", "issue", ok, <<>>))
        /\ IF ok
           THEN /\ tcall' = [tcall EXCEPT
                        !.pc = IF Truthy(tcall.args.final_comment)
                               THEN "comment" ELSE "patch",
                        !.current_labels = tracker.labels]
                /\ UNCHANGED <<t_result, ctx_errors>>
           ELSE TicketFails(Exception("HTTPStatusError", 0), <<"http">>)
    /\ UNCHANGED <<docs_vars, token, tracker>>

\* close_ticket.py:87-93: the final comment
CloseComment ==
    /\ tcall.pc = "comment"
    /\ tcall.tool = "close_ticket"
    /\ NestedReply(tcall.args.final_comment.value,
                   [tcall EXCEPT !.pc = "patch"], t_result)
    /\ UNCHANGED <<docs_vars, token>>

\* the closing that sends its PATCH where the final comment belongs
ClosePatch_BeforeComment ==
    /\ tcall.pc \in {"comment", "patch"}
    /\ tcall.tool = "close_ticket"
    /\ LET payload == [state  |-> "closed",
                       labels |-> close_labels(tcall.current_labels,
                                               tcall.args.resolution_label)]
       IN  \E ok \in BOOLEAN :
            /\ http_log' = Append(http_log, Request("PATCH", "issue", ok, payload))
            /\ IF ok
               THEN /\ tracker' = [tracker EXCEPT !.state = payload.state,
                                                  !.labels = payload.labels]
                    /\ tcall' = [tcall EXCEPT !.pc = "done"]
                    /\ t_result' = ToolResult(<<"closed", payload.labels>>,
                                              [state |-> payload.state,
                                               labels |-> payload.labels],
                                              RepoMeta)
                    /\ UNCHANGED ctx_errors
               ELSE /\ TicketFails(Exception("HTTPStatusError", 0), <<"http">>)
                    /\ UNCHANGED tracker
    /\ UNCHANGED <<docs_vars, token>>

\* close_ticket.py:96-130: the PATCH that closes the ticket, and the result
ClosePatch ==
    /\ tcall.pc = "patch"
    /\ tcall.tool = "close_ticket"
    /\ LET payload == [state  |-> "closed",
                       labels |-> close_labels(tcall.current_labels,
                                               tcall.args.resolution_label)]
       IN  \E ok \in BOOLEAN :
            /\ http_log' = Append(http_log, Request("PATCH", "issue", ok, payload))
            /\ IF ok
               THEN /\ tracker' = [tracker EXCEPT !.state = payload.state,
                                                  !.labels = payload.labels]
                    /\ tcall' = [tcall EXCEPT !.pc = "done"]
                    /\ t_result' = ToolResult(<<"closed", payload.labels>>,
                                              [state |-> payload.state,
                                               labels |-> payload.labels],
                                              RepoMeta)
                    /\ UNCHANGED ctx_errors
               ELSE /\ TicketFails(Exception("HTTPStatusError", 0), <<"http">>)
                    /\ UNCHANGED tracker
    /\ UNCHANGED <<docs_vars, token>>

\* update_ticket_meta.py:19-62
UpdateTicketStart ==
    \E args \in UpdateArgs : TicketStart("update_ticket_meta", args, "fetch")

\* update_ticket_meta.py:92-139: GET of the issue, the payload, and the
\* early return when the payload is empty
UpdateFetch ==
    /\ tcall.pc = "fetch"
    /\ tcall.tool = "update_ticket_meta"
    /\ \E ok \in BOOLEAN :
        /\ http_log' = Append(http_log, Request("GET", "issue", ok, <<>>))
        /\ IF ~ok
           THEN TicketFails(Exception("HTTPStatusError", 0), <<"http">>)
           ELSE LET a == tcall.args
                    payload == update_payload(tracker.labels, a.labels,
                                              a.priority, a.assignee)
                IN  IF DOMAIN payload = {}
                    THEN /\ tcall' = [tcall EXCEPT !.pc = "done",
                                          !.current_labels = tracker.labels]
                         /\ t_result' = ToolResult(<<"nothing to update">>,
                                                   [updated |-> FALSE], RepoMeta)
                         /\ UNCHANGED ctx_errors
                    ELSE /\ tcall' = [tcall EXCEPT !.pc = "patch",
                                          !.current_labels = tracker.labels]
                         /\ UNCHANGED <<t_result, ctx_errors>>
    /\ UNCHANGED <<docs_vars, token, tracker>>

\* update_ticket_meta.py:141-180: the PATCH and the result
UpdatePatch ==
    /\ tcall.pc = "patch"
    /\ tcall.tool = "update_ticket_meta"
    /\ LET a == tcall.args
           payload == update_payload(tcall.current_labels, a.labels,
                                     a.priority, a.assignee)
           updated == [tracker EXCEPT
                        !.labels = IF "labels" \in DOMAIN payload
                                   THEN payload["labels"] ELSE @,
                        !.assignees = IF "assignees" \in DOMAIN payload
                                      THEN payload["assignees"] ELSE @]
       IN  \E ok \in BOOLEAN :
            /\ http_log' = Append(http_log, Request("PATCH", "issue", ok, payload))
            /\ IF ok
               THEN /\ tracker' = updated
                    /\ tcall' = [tcall EXCEPT !.pc = "done"]
                    /\ t_result' = ToolResult(<<"updated", updated.labels>>,
                                              [labels    |-> updated.labels,
                                               assignees |-> updated.assignees,
                                               priority  |-> a.priority],
                                              RepoMeta)
                    /\ UNCHANGED ctx_errors
               ELSE /\ TicketFails(Exception("HTTPStatusError", 0), <<"http">>)
                    /\ UNCHANGED tracker
    /\ UNCHANGED <<docs_vars, token>>

\* post_ticket_reply.py:19-48
PostReplyStart ==
    \E args \in [reply_text : {Texts.thanks}] : TicketStart("post_ticket_reply", args, "post")

\* post_ticket_reply.py:84-117: the POST of the comment, and the result
PostReply ==
    /\ tcall.pc = "post"
    /\ tcall.tool = "post_ticket_reply"
    /\ \E ok \in BOOLEAN :
        /\ http_log' = Append(http_log,
                              Request("POST", "comment", ok, tcall.args.reply_text))
        /\ IF ok
           THEN /\ tracker' = [tracker EXCEPT !.comments =
                        Append(@, [by |-> tcall.tool, text |-> tcall.args.reply_text])]
                /\ tcall' = [tcall EXCEPT !.pc = "done"]
                /\ t_result' = ToolResult(<<"comment added">>,
                                          [comment |-> Len(tracker.comments) + 1],
                                          RepoMeta)
                /\ UNCHANGED ctx_errors
           ELSE /\ TicketFails(Exception("HTTPStatusError", 0), <<"http">>)
                /\ UNCHANGED tracker
    /\ UNCHANGED <<docs_vars, token>>

\* create_subtasks_from_ticket.py:21-48
SubtasksStart ==
    \E args \in SubtaskArgs : TicketStart("create_subtasks_from_ticket", args, "fetch")

\* create_subtasks_from_ticket.py:89-116: GET of the issue, the refusal of a
\* pull request, GET of the comments
SubtasksFetch ==
    /\ tcall.pc = "fetch"
    /\ tcall.tool = "create_subtasks_from_ticket"
    /\ \E ok_issue \in BOOLEAN, ok_comments \in BOOLEAN :
        LET get_issue    == Request("GET", "issue", ok_issue, <<>>)
            get_comments == Request("GET", "comments", ok_comments, <<>>)
        IN  IF ~ok_issue
            THEN /\ http_log' = Append(http_log, get_issue)
                 /\ TicketFails(Exception("HTTPStatusError", 0), <<"http">>)
            ELSE IF tracker.pull_request
            THEN /\ http_log' = Append(http_log, get_issue)
                 /\ TicketFails(Exception("McpError", InvalidParams), <<"pull request", "unexpected">>)
            ELSE IF ~ok_comments
            THEN /\ http_log' = http_log \o <<get_issue, get_comments>>
                 /\ TicketFails(Exception("HTTPStatusError", 0), <<"http">>)
            ELSE /\ http_log' = http_log \o <<get_issue, get_comments>>
                 /\ tcall' = [tcall EXCEPT !.pc = "prompt"]
                 /\ UNCHANGED <<t_result, ctx_errors>>
    /\ UNCHANGED <<docs_vars, token, tracker>>

\* the dry run that is not looked at before the issues are created
dry_run_skips_creation_Ignored(dry_run) == FALSE

\* create_subtasks_from_ticket.py:187: if not dry_run
dry_run_skips_creation(dry_run) == dry_run

\* create_subtasks_from_ticket.py:161-166: subtasks
cut_subtasks(suggested, max_subtasks) == Prefix(suggested, max_subtasks)

\* create_subtasks_from_ticket.py:260-269: the result of the tool
subtasks_result(dry_run, subtasks, created) ==
    ToolResult(<<IF dry_run THEN "dry run" ELSE "created", subtasks>>,
               [dry_run            |-> dry_run,
                suggested_subtasks |-> subtasks,
                created_subtasks   |-> created],
               RepoMeta)

\* create_subtasks_from_ticket.py:153-185, 240-269: the answer of the model
\* (ctx.prompt raises, gives a text that is no JSON, or the JSON of some
\* suggested subtasks),
\* the cut to max_subtasks, the return without subtasks and the return of
\* the dry run
SubtasksPrompt ==
    /\ tcall.pc = "prompt"
    /\ tcall.tool = "create_subtasks_from_ticket"
    /\ \E answer \in {Raises("Exception"), Returns([json |-> FALSE, subtasks |-> <<>>])}
                    \cup {Returns([json |-> TRUE, subtasks |-> Prefix(SuggestionPool, k)]) :
                            k \in 0..MaxSuggested} :
        IF answer.raised
        THEN TicketFails([type |-> answer.value, code |-> 0], <<"unexpected">>)
        ELSE LET a == tcall.args
                 subtasks == cut_subtasks(answer.value.subtasks, a.max_subtasks)
             IN  IF subtasks = <<>>
                 THEN /\ tcall' = [tcall EXCEPT !.pc = "done"]
                      /\ t_result' = ToolResult(<<"no subtasks">>,
                                                [created_subtasks |-> <<>>,
                                                 dry_run |-> a.dry_run],
                                                RepoMeta)
                      /\ UNCHANGED ctx_errors
                 ELSE IF dry_run_skips_creation(a.dry_run)
                 THEN /\ tcall' = [tcall EXCEPT !.pc = "done", !.subtasks = subtasks]
                      /\ t_result' = subtasks_result(a.dry_run, subtasks, <<>>)
                      /\ UNCHANGED ctx_errors
                 ELSE /\ tcall' = [tcall EXCEPT !.pc = "create", !.subtasks = subtasks]
                      /\ UNCHANGED <<t_result, ctx_errors>>
    /\ UNCHANGED <<docs_vars, token, tracker, http_log>>

\* create_subtasks_from_ticket.py:190-223: one turn of the loop, the POST
\* that creates the next subtask
SubtasksCreate ==
    /\ tcall.pc = "create"
    /\ Len(tcall.created) < Len(tcall.subtasks)
    /\ LET st == tcall.subtasks[Len(tcall.created) + 1]
       IN  \E ok \in BOOLEAN :
            /\ http_log' = Append(http_log, Request("POST", "issues", ok, st))
            /\ IF ok
               THEN /\ tracker' = [tracker EXCEPT !.issues = Append(@, st)]
                    /\ tcall' = [tcall EXCEPT !.created = Append(@, st)]
                    /\ UNCHANGED <<t_result, ctx_errors>>
               ELSE /\ TicketFails(Exception("HTTPStatusError", 0), <<"http">>)
                    /\ UNCHANGED tracker
    /\ UNCHANGED <<docs_vars, token>>

\* the comment on the parent that does not wait for the last subtask
SubtasksComment_Early ==
    /\ tcall.pc = "create"
    /\ tcall.created # <<>>
    /\ NestedReply(<<"subtasks", tcall.created>>,
                   [tcall EXCEPT !.pc = "done"],
                   subtasks_result(tcall.args.dry_run, tcall.subtasks, tcall.created))
    /\ UNCHANGED <<docs_vars, token>>

\* create_subtasks_from_ticket.py:225-269: after the loop, the comment on
\* the parent and the result
SubtasksComment ==
    /\ tcall.pc = "create"
    /\ Len(tcall.created) = Len(tcall.subtasks)
    /\ NestedReply(<<"subtasks", tcall.created>>,
                   [tcall EXCEPT !.pc = "done"],
                   subtasks_result(tcall.args.dry_run, tcall.subtasks, tcall.created))
    /\ UNCHANGED <<docs_vars, token>>

\* the caller has the result or the error of the ticket tool
TicketCallEnds ==
    /\ tcall.pc \in {"done", "failed"}
    /\ tcall' = NoTicketCall
    /\ http_log' = <<>>
    /\ t_result' = NoResult
    /\ ctx_errors' = <<>>
    /\ UNCHANGED <<docs_vars, token, tracker>>

NextTickets ==
    \/ CloseTicketStart
    \/ CloseFetch
    \/ CloseComment
    \/ ClosePatch
    \/ UpdateTicketStart
    \/ UpdateFetch
    \/ UpdatePatch
    \/ PostReplyStart
    \/ PostReply
    \/ SubtasksStart
    \/ SubtasksFetch
    \/ SubtasksPrompt
    \/ SubtasksCreate
    \/ SubtasksComment
    \/ TicketCallEnds

SpecTickets == InitTickets /\ [][NextTickets]_vars


(***************************************************************************)
(* Properties.                                                             *)
(***************************************************************************)
Elems(seq) == {seq[i] : i \in 1..Len(seq)}

\* every snippet a call has returned: by _search_in_file (snippets) and by
\* _search_docs_internal (result)
Returned == Elems(snippets) \cup Elems(result)

\* the sum, over the tokens of q in the order findall gives them, of the
\* number of occurrences of the token in the text para, case ignored
RECURSIVE OccurrenceSumUpTo(_, _, _)
OccurrenceSumUpTo(text, toks, n) ==
    IF n = 0 THEN 0
    ELSE StrCount(text, toks[n]) + OccurrenceSumUpTo(text, toks, n - 1)

OccurrenceSum(para, q) ==
    LET toks == FindallWords(Lower(q))
    IN  OccurrenceSumUpTo(Lower(para), toks, Len(toks))

\* the file the last call of _search_in_file has read
LastFileRead == files[idx - 1]

\* C1: the score of every returned snippet is the sum, over the query's
\* tokens, of the occurrences of the token (case ignored) in the trimmed
\* source paragraph before truncation; the file "error timeout error"
\* searched with "error" yields exactly one snippet, of score 2.
C1_ScoreIsOccurrenceSum ==
    /\ \A s \in Returned : s.score = OccurrenceSum(s.src, query)
    /\ (pc = "loop" /\ idx > 1 /\ query = Q_error
            /\ fs[LastFileRead] = RegularFile(DocA))
        => (Len(snippets) = 1 /\ snippets[1].score = 2 /\ snippets[1].src = ParaA)

C1_Witness ==
    /\ pc = "loop" /\ idx > 1 /\ query = Q_error
    /\ fs[LastFileRead] = RegularFile(DocA)
    /\ Len(snippets) = 1

\* the distinct tokens of q
TokenSet(q) == Elems(FindallWords(Lower(q)))

RECURSIVE SumOverSet(_, _, _)
SumOverSet(S, text, weight) ==
    IF S = {} THEN 0
    ELSE LET t == CHOOSE x \in S : TRUE
         IN  weight[t] * StrCount(text, t) + SumOverSet(S \ {t}, text, weight)

\* C2 as stated: every distinct token of the query contributes its
\* occurrence count exactly once, so repeating a word in the query does not
\* change a paragraph's score.
C2_EachTokenCountsOnce ==
    \A s \in Returned :
        s.score = SumOverSet(TokenSet(query), Lower(s.src), [t \in TokenSet(query) |-> 1])

\* C2 amended: the tokens are a list, and every distinct token contributes
\* its occurrence count once per time it is written in the query; the query
\* "error error" scores a paragraph twice what "error" scores it.
C2_EachTokenCountsPerRepetition ==
    /\ \A s \in Returned :
        s.score = SumOverSet(TokenSet(query), Lower(s.src),
                      [t \in TokenSet(query) |-> Multiplicity(FindallWords(Lower(query)), t)])
    /\ query = Q_twice =>
        \A s \in Returned :
            s.score = 2 * SumOverSet(TokenSet(Q_error), Lower(s.src),
                              [t \in TokenSet(Q_error) |-> 1])

C2_Witness == pc = "done" /\ query = Q_twice /\ result # <<>>

\* C3: every snippet returned by _search_in_file and by
\* _search_docs_internal has an integer score of at least 1.
C3_NoSnippetWithoutScore ==
    \A s \in Returned : s.score \in Nat /\ s.score >= 1

\* a result is returned although a scanned file has a paragraph of score 0
C3_Witness ==
    /\ pc = "done" /\ result # <<>> /\ query = Q_error
    /\ \E i \in 1..Len(files) : fs[files[i]] = RegularFile(DocB)

\* C4: a snippet text is the whole trimmed paragraph when that has at most
\* 600 characters, and otherwise its first 600 characters followed by "...";
\* no snippet text is longer than 600 characters plus the marker.
C4_SnippetTextShape ==
    \A s \in Returned :
        /\ Len(s.src) <= 600 => s.snippet = s.src
        /\ Len(s.src) > 600 =>
            /\ Len(s.snippet) = 600 + 3
            /\ SubSeq(s.snippet, 1, 600) = SubSeq(s.src, 1, 600)
            /\ SubSeq(s.snippet, 601, 603) = <<".", ".", ".">>
        /\ Len(s.snippet) <= 600 + 3

\* a result holds a paragraph of exactly 600 characters and a longer one
C4_Witness ==
    /\ pc = "done"
    /\ \E s \in Elems(result) : Len(s.src) = 600
    /\ \E s \in Elems(result) : Len(s.src) > 600

\* C5 as stated: the text of every snippet has at most 600 characters.
C5_TextAtMost600 ==
    \A s \in Returned : Len(s.snippet) <= 600

\* C5 amended: the text of every snippet has at most 603 characters (600
\* and the three of the marker), and a snippet taken from a paragraph longer
\* than 600 characters has exactly 603.
C5_TextAtMost603 ==
    \A s \in Returned :
        /\ Len(s.snippet) <= 603
        /\ Len(s.src) > 600 => Len(s.snippet) = 603

C5_Witness == pc = "done" /\ \E s \in Elems(result) : Len(s.snippet) = 603

\* C6: for a paragraph longer than 600 characters the score counts the
\* occurrences over the whole paragraph, those after character 600 included:
\* it is the score of the untruncated paragraph, never less than what the
\* returned text alone would score.
C6_TruncationKeepsScore ==
    \A s \in Returned :
        Len(s.src) > SnippetLimit =>
            /\ s.score = OccurrenceSum(s.src, query)
            /\ s.score >= OccurrenceSum(Prefix(s.src, SnippetLimit), query)

\* a returned snippet was truncated and has occurrences after character 600
C6_Witness ==
    /\ pc = "done"
    /\ \E s \in Elems(result) :
        /\ Len(s.src) > SnippetLimit
        /\ s.score > OccurrenceSum(Prefix(s.src, SnippetLimit), query)

\* C7: the returned sequence has at most max_results elements, and exactly
\* min(max_results, number of collected snippets), for max_results in 1..20.
C7_ResultLength ==
    (pc = "done" /\ tool # "list_docs") =>
        /\ max_results \in 1..20
        /\ Len(result) <= max_results
        /\ Len(result) = Min2(max_results, Len(all_snippets))

\* more snippets were collected than asked for
C7_Witness ==
    pc = "done" /\ Len(all_snippets) > max_results /\ Len(result) = max_results

\* the number of snippets of the sequence seq that come from the file path
CountFrom(seq, path) == Cardinality({i \in 1..Len(seq) : seq[i].file = path_str(path)})

\* C8: at most 3 snippets of a result come from the same document, also
\* when max_results is larger than 3 and the document has more paragraphs
\* that outscore the snippets of other documents.
C8_AtMostThreePerDocument ==
    /\ Len(snippets) <= 3
    /\ \A path \in Paths :
        /\ CountFrom(all_snippets, path) <= 3
        /\ CountFrom(result, path) <= 3

\* max_results > 3, a document with a fourth scoring paragraph has 3 snippets
\* in the result, and that fourth paragraph outscores a returned snippet of
\* another document
C8_Witness ==
    /\ pc = "done" /\ max_results > 3
    /\ \E path \in Elems(files) :
        LET ranking == search_in_file(path, fs[path], query, 4).value
        IN  /\ Len(ranking) = 4
            /\ CountFrom(result, path) = 3
            /\ \E s \in Elems(result) : s.file # path_str(path) /\ s.score < ranking[4].score

NonIncreasing(seq) ==
    \A i, j \in 1..Len(seq) : i < j => seq[i].score >= seq[j].score

\* C9: the sequences returned by _search_in_file and by
\* _search_docs_internal are non-increasing by score.
C9_SortedByScore ==
    /\ NonIncreasing(snippets)
    /\ NonIncreasing(result)

\* the result has several scores and does not start with the first file's
C9_Witness ==
    /\ pc = "done" /\ Len(result) >= 3
    /\ result[1].score > result[Len(result)].score
    /\ result[1].file # path_str(files[1])
    /\ \E s \in Elems(result) : s.file = path_str(files[1])

\* the position in the scan of the file a snippet names
ScanPosition(file) == CHOOSE i \in 1..Len(files) : path_str(files[i]) = file

Failed == pc = "failed" \/ tool_result.kind \in {"McpError", "raised"}

\* the call is a search: a tool that searches or _search_docs_internal itself
IsSearch == tool \in {"search_docs", "answer_from_docs", "internal"}

\* C11: when the root does not exist or is not a directory, the scan gives
\* no file and a search for any query returns the empty sequence; no call
\* raises an exception.
C11_MissingRootIsEmptyNotError ==
    ~root_is_dir =>
        /\ ~Failed
        /\ files = <<>>
        /\ all_snippets = <<>>
        /\ result = <<>>

\* a search over a missing root has returned
C11_Witness ==
    ~root_is_dir /\ pc = "done" /\ IsSearch /\ query = Q_error /\ result = <<>>

\* the scanned files that can be read, in scan order
ReadableOnly(fl) == SelectSeq(fl, LAMBDA path : fs[path] # Unreadable)

\* the snippets of the files fl for the query q, file after file
RECURSIVE CollectFrom(_, _)
CollectFrom(fl, q) ==
    IF fl = <<>> THEN <<>>
    ELSE search_file(Head(fl), q).value \o CollectFrom(Tail(fl), q)

\* C12: a file that cannot be read gives no snippet and does not abort the
\* search: the search over a scan with unreadable files raises nothing and
\* returns what the same search returns over the other files alone.
C12_UnreadableFileIsSkipped ==
    /\ (\E path \in Paths : fs[path] = Unreadable) => ~Failed
    /\ \A s \in Elems(all_snippets) \cup Elems(result) :
          \A path \in Paths : fs[path] = Unreadable => s.file # path_str(path)
    /\ (pc = "loop" /\ idx > 1 /\ fs[files[idx - 1]] = Unreadable) => snippets = <<>>
    /\ (pc = "done" /\ IsSearch) =>
          result = search_docs_internal_return(
                       CollectFrom(ReadableOnly(files), query), max_results)

\* a search has returned snippets although it scanned an unreadable file
C12_Witness ==
    /\ pc = "done" /\ IsSearch /\ result # <<>>
    /\ Len(files) >= 2
    /\ \E i \in 1..Len(files) : fs[files[i]] = Unreadable

\* C13: the scan returns every regular file under the root whose suffix is
\* .md, .rst or .txt in any letter case, each once, and nothing else: no
\* file with another suffix and no directory.
C13_ScanReturnsExactlyTheDocuments ==
    (pc \in {"loop", "done"} /\ root_is_dir) =>
        /\ Elems(files) =
              {path \in Paths :
                  /\ fs[path].kind = "file"
                  /\ PathSuffix[path] \in {".md", ".MD", ".rst", ".txt"}}
        /\ Cardinality(Elems(files)) = Len(files)
        /\ fs["sub/README.MD"].kind = "file" => "sub/README.MD" \in Elems(files)
        /\ "notes.py" \notin Elems(files)
        /\ "archive.txt" \notin Elems(files)

\* a scan has found README.MD of the subdirectory next to a file with
\* another suffix and a directory with an allowed suffix
C13_Witness ==
    /\ pc = "done" /\ root_is_dir
    /\ "sub/README.MD" \in Elems(files)
    /\ fs["notes.py"].kind = "file"
    /\ fs["archive.txt"].kind = "dir"
    /\ fs["a.md"].kind = "absent"

\* no entry under the root is a file with an allowed suffix
NoDocuments ==
    \A path \in Paths :
        ~(fs[path].kind = "file" /\ PathSuffix[path] \in {".md", ".MD", ".rst", ".txt"})

\* C14: when the root holds no file with an allowed suffix, list_docs
\* returns a result (no exception) whose structured files is the empty list
\* and whose text says that the directory was not found or is empty.
C14_ListDocsWithoutDocuments ==
    (tool = "list_docs" /\ pc # "idle" /\ NoDocuments) =>
        /\ ~Failed
        /\ tool_result.kind = "ToolResult"
        /\ tool_result.structured_content.files = <<>>
        /\ Len(tool_result.content) = 1
        /\ tool_result.content[1].text[1] = "Documentation directory not found or empty: "

\* list_docs has returned for a root that exists and holds other entries
C14_Witness ==
    /\ tool = "list_docs" /\ pc = "done" /\ NoDocuments /\ root_is_dir
    /\ fs["notes.py"].kind = "file"

\* C15: when the query matches nothing, search_docs returns results = [] and
\* answer_from_docs returns answer = null; the answer of answer_from_docs is
\* null exactly when used_snippets is empty and is a non-empty string
\* otherwise, never the empty string.
C15_NothingFoundIsEmptyListAndNull ==
    /\ (pc = "done" /\ tool = "search_docs" /\ all_snippets = <<>>) =>
          /\ tool_result.kind = "ToolResult"
          /\ tool_result.structured_content.results = <<>>
    /\ (pc = "done" /\ tool = "answer_from_docs") =>
          /\ tool_result.kind = "ToolResult"
          /\ LET sc == tool_result.structured_content
             IN  /\ all_snippets = <<>> => sc.answer = [type |-> "NoneType"]
                 /\ sc.answer = [type |-> "NoneType"] <=> sc.used_snippets = <<>>
                 /\ sc.used_snippets # <<>> =>
                       /\ sc.answer.type = "str"
                       /\ Len(sc.answer.value) > 0
                 /\ sc.answer # [type |-> "str", value |-> <<>>]

\* answer_from_docs has returned for a query that matches no paragraph of
\* the documents it read
C15_Witness ==
    /\ pc = "done" /\ tool = "answer_from_docs" /\ query = Q_xyz
    /\ \E i \in 1..Len(files) : fs[files[i]] = RegularFile(DocB)
    /\ tool_result.structured_content.used_snippets = <<>>

\* C16: every result that list_docs, search_docs and answer_from_docs
\* return, with and without snippets or files, has a non-empty text content
\* and a structured_content that is not null.
C16_TextAndStructuredTogether ==
    (pc = "done" /\ tool \in {"list_docs", "search_docs", "answer_from_docs"}) =>
        /\ tool_result.kind = "ToolResult"
        /\ Len(tool_result.content) >= 1
        /\ \A i \in 1..Len(tool_result.content) :
              /\ tool_result.content[i].type = "text"
              /\ Len(tool_result.content[i].text) > 0
        /\ tool_result.structured_content # [type |-> "NoneType"]
        /\ DOMAIN tool_result.structured_content # {}

\* search_docs has returned without a snippet
C16_Witness ==
    /\ pc = "done" /\ tool = "search_docs" /\ result = <<>> /\ root_is_dir
    /\ tool_result.kind = "ToolResult"

\* the dicts {file, score, snippet} of the returned list
ResultDicts ==
    [k \in 1..Len(result) |->
        [file |-> result[k].file, score |-> result[k].score, snippet |-> result[k].snippet]]

\* C17 as stated: the structured value of search_docs and of
\* answer_from_docs holds the snippet list and the query.
C17_StructuredHoldsSnippetsAndQuery ==
    (pc = "done" /\ tool \in {"search_docs", "answer_from_docs"}) =>
        LET sc == tool_result.structured_content
        IN  /\ "query" \in DOMAIN sc
            /\ sc.query = query
            /\ \/ "results" \in DOMAIN sc /\ sc.results = ResultDicts
               \/ "used_snippets" \in DOMAIN sc /\ sc.used_snippets = ResultDicts

\* C17: the structured value of answer_from_docs holds the snippet list
\* (used_snippets) and the query, with and without snippets; the structured
\* value of search_docs holds the snippet list (results) only, and the
\* query is returned in meta.
C17_QueryOfSearchDocsIsInMeta ==
    /\ (pc = "done" /\ tool = "answer_from_docs") =>
          /\ DOMAIN tool_result.structured_content = {"answer", "used_snippets", "query"}
          /\ tool_result.structured_content.used_snippets = ResultDicts
          /\ tool_result.structured_content.query = query
    /\ (pc = "done" /\ tool = "search_docs") =>
          /\ DOMAIN tool_result.structured_content = {"results"}
          /\ tool_result.structured_content.results = ResultDicts
          /\ tool_result.meta = [query |-> query]

\* search_docs has returned snippets
C17_Witness ==
    pc = "done" /\ tool = "search_docs" /\ result # <<>> /\ query = Q_mixed

\* the text of the result of list_docs
ListDocsText == tool_result.content[1].text

\* C18 as stated: the paths of the prose listing and of the structured files
\* list are the paths relative to docs_dir, the same documents in the same
\* order.
C18_ListedPathsAreRelative ==
    (pc = "done" /\ tool = "list_docs" /\ files # <<>>) =>
        /\ Len(tool_result.structured_content.files) = Len(files)
        /\ Len(ListDocsText) = 1 + 3 * Len(files)
        /\ \A i \in 1..Len(files) :
              /\ ListDocsText[3 * i + 1] = files[i]
              /\ tool_result.structured_content.files[i] = files[i]

\* C18: the prose listing names every discovered document by its path
\* relative to docs_dir; the structured files list names the same documents
\* in the same order by the full path, docs_dir joined with the relative
\* path.
C18_ProseRelativeStructuredFull ==
    (pc = "done" /\ tool = "list_docs" /\ files # <<>>) =>
        /\ tool_result.structured_content.docs_dir = "/srv/docs"
        /\ Len(tool_result.structured_content.files) = Len(files)
        /\ Len(ListDocsText) = 1 + 3 * Len(files)
        /\ \A i \in 1..Len(files) :
              /\ ListDocsText[3 * i + 1] = files[i]
              /\ tool_result.structured_content.files[i]
                    = tool_result.structured_content.docs_dir \o "/" \o files[i]

\* list_docs has listed two documents, one of them in a subdirectory
C18_Witness ==
    /\ pc = "done" /\ tool = "list_docs" /\ Len(files) >= 2
    /\ "sub/README.MD" \in Elems(files)

\* C19 as stated: a search called without a cap returns at most 5 snippets.
C19_DefaultCapIsFive ==
    (pc = "done" /\ IsSearch /\ ~cap_given) => Len(result) <= 5

\* C19: the cap defaults to 5 in the tools search_docs and answer_from_docs,
\* which always pass it on, and to 10 in _search_docs_internal itself: a
\* tool called without a cap returns at most 5 snippets, a direct call of
\* the aggregator without a cap returns at most 10.
C19_DefaultCapByEntryPoint ==
    (pc \in {"loop", "done"} /\ IsSearch /\ ~cap_given) =>
        /\ tool \in {"search_docs", "answer_from_docs"} =>
              /\ max_results = 5
              /\ pc = "done" => Len(result) = Min2(5, Len(all_snippets))
        /\ tool = "internal" =>
              /\ max_results = 10
              /\ pc = "done" => Len(result) = Min2(10, Len(all_snippets))

\* a direct call without a cap has returned more than 5 snippets
C19_Witness ==
    pc = "done" /\ tool = "internal" /\ ~cap_given /\ Len(result) > 5

\* C20: a non-empty query without a word character gives every paragraph
\* the score 0: no snippet is collected, the result is the empty sequence
\* for every corpus, and nothing raises.
C20_QueryWithoutWordsFindsNothing ==
    (IsSearch /\ query # <<>> /\ \A i \in 1..Len(query) : ~IsWordChar(query[i])) =>
        /\ ~Failed
        /\ snippets = <<>>
        /\ all_snippets = <<>>
        /\ result = <<>>

\* the search for "!!!" has read a document and returned
C20_Witness ==
    /\ pc = "done" /\ IsSearch /\ query = Q_bang /\ result = <<>>
    /\ \E i \in 1..Len(files) : fs[files[i]] = RegularFile(DocA)

\* C23: every call reads the documents anew: in any sequence of file
\* creations, rewrites, deletions and searches, the list a search returns is
\* what the scan, the scoring and the ranking give on the files as they are
\* at that call, whatever earlier searches read.
C23_SearchSeesCurrentFiles ==
    (pc = "done" /\ IsSearch) =>
        /\ Returns(files) \in iter_doc_files
        /\ result = search_docs_internal_return(CollectFrom(files, query), max_results)
        /\ \A s \in Elems(result) :
              \E path \in DocPaths :
                  /\ s.file = path_str(path)
                  /\ fs[path].kind = "file"
                  /\ s.src = Strip(SplitParagraphs(fs[path].content)[s.para])

\* a search has returned snippets of a file that was rewritten and of a
\* file that was created after the start
C23_Witness ==
    /\ pc = "done" /\ IsSearch /\ query = Q_error
    /\ fs["a.md"] = RegularFile(DocC)
    /\ fs["sub/README.MD"] = RegularFile(DocA)
    /\ \E s \in Elems(result) : s.file = path_str("a.md")
    /\ \E s \in Elems(result) : s.file = path_str("sub/README.MD")

\* C24: two searches that run at once over the same unchanged tree do not
\* affect each other: under every interleaving of their steps each has
\* collected, and in the end returns, exactly what it collects and returns
\* alone with its query, its cap and its scan.
C24_ConcurrentSearchesIndependent ==
    /\ (pc = "loop" /\ IsSearch) =>
          all_snippets = CollectFrom(SubSeq(files, 1, idx - 1), query)
    /\ (pc = "done" /\ IsSearch) =>
          result = search_docs_internal_return(CollectFrom(files, query), max_results)
    /\ other.pc = "loop" =>
          other.all_snippets
              = CollectFrom(SubSeq(other.files, 1, other.idx - 1), other.query)
    /\ other.pc = "done" =>
          other.result = search_docs_internal_return(
                             CollectFrom(other.files, other.query), other.max_results)
    /\ other.pc # "failed" /\ pc # "failed"

\* one search has returned while the other, with another query and another
\* scan order, is between two files
C24_Witness ==
    /\ pc = "done" /\ IsSearch /\ result # <<>>
    /\ other.pc = "loop" /\ other.idx = 2 /\ other.all_snippets # <<>>
    /\ other.query # query
    /\ other.files # files

\* C25: list_docs, search_docs and answer_from_docs only read the
\* filesystem: no step of a call, whether the call returns or raises,
\* changes the set of entries under the root or the content of a file.
C25_ToolsLeaveFilesUnchanged ==
    [][fs' = fs /\ root_is_dir' = root_is_dir]_vars

\* list_docs has raised over a tree that holds documents
C25_Witness ==
    /\ pc = "failed" /\ tool = "list_docs"
    /\ \E path \in DocPaths : fs[path].kind = "file"

\* C26: an exception raised inside list_docs, search_docs or
\* answer_from_docs is reported once through ctx.error and leaves the tool
\* as an McpError with code -32603; a tool that has raised has returned no
\* ToolResult, and no other exception leaves a tool.
C26_FailureBecomesMcpError ==
    tool \in {"list_docs", "search_docs", "answer_from_docs"} =>
        /\ pc = "failed" =>
              /\ tool_result.kind = "McpError"
              /\ tool_result.code = -32603
              /\ ctx_errors = <<tool_result.cause>>
        /\ tool_result.kind = "ToolResult" => (pc = "done" /\ ctx_errors = <<>>)
        /\ tool_result.kind # "raised"
        /\ pc = "done" => tool_result.kind = "ToolResult"

\* answer_from_docs has failed in the scan
C26_Witness ==
    /\ pc = "failed" /\ tool = "answer_from_docs"
    /\ tool_result.kind = "McpError"
    /\ tool_result.cause = "PermissionError"

\* the requests of the running call with this method and target that the
\* tracker accepted (ok) or refused
Sent(method, target, ok) ==
    {i \in 1..Len(http_log) :
        /\ http_log[i].method = method
        /\ http_log[i].target = target
        /\ http_log[i].ok = ok}

SentAny(method, target) == Sent(method, target, TRUE) \cup Sent(method, target, FALSE)

\* how often label l stands in the list
Occurrences(labels, l) == Cardinality({i \in 1..Len(labels) : labels[i] = l})

\* C22: every closing PATCH of close_ticket carries state "closed" and a
\* label list that begins with the fetched labels in their order; a
\* resolution label that is non-empty and was not among them follows once as
\* the only addition, and otherwise nothing is added
C22_ClosingPatchKeepsLabels ==
    tcall.tool = "close_ticket" =>
        \A i \in SentAny("PATCH", "issue") :
            LET sent     == http_log[i].body
                fetched  == tcall.current_labels
                res      == tcall.args.resolution_label
            IN  /\ sent.state = "closed"
                /\ Len(sent.labels) >= Len(fetched)
                /\ SubSeq(sent.labels, 1, Len(fetched)) = fetched
                /\ IF Truthy(res) /\ Occurrences(fetched, res.value) = 0
                   THEN /\ Len(sent.labels) = Len(fetched) + 1
                        /\ sent.labels[Len(sent.labels)] = res.value
                        /\ Occurrences(sent.labels, res.value) = 1
                   ELSE sent.labels = fetched

\* a ticket that already had the resolution label was closed with it
C22_Witness ==
    /\ tcall.tool = "close_ticket"
    /\ tcall.pc = "done"
    /\ Sent("PATCH", "issue", TRUE) # {}
    /\ Truthy(tcall.args.resolution_label)
    /\ Occurrences(tcall.current_labels, tcall.args.resolution_label.value) = 1
    /\ Len(tcall.current_labels) = 3
    /\ tracker.state = "closed"
    /\ tracker.labels = tcall.current_labels

\* C29: close_ticket sends its PATCH only after the issue was fetched and,
\* when a final comment is given, after the comment was posted; a call that
\* fails in the fetch or in the comment has sent no PATCH and leaves the
\* ticket as it was; a refused PATCH leaves the ticket and the posted
\* comment as they were and ends the call in an McpError; the state of the
\* ticket changes only with an accepted PATCH
C29_PatchOnlyAfterFetchAndComment ==
    [][tcall'.tool = "close_ticket" =>
        LET sends   == Len(http_log') = Len(http_log) + 1
            request == http_log'[Len(http_log')]
            patches == sends /\ request.method = "PATCH"
        IN  /\ patches =>
                /\ Sent("GET", "issue", TRUE) # {}
                /\ Truthy(tcall.args.final_comment) =>
                       /\ Sent("POST", "comment", TRUE) # {}
                       /\ \E j \in 1..Len(tracker.comments) :
                              tracker.comments[j].text = tcall.args.final_comment.value
            /\ (sends /\ ~patches /\ ~request.ok) =>
                /\ tcall'.pc = "failed"
                /\ t_result'.kind = "McpError"
                /\ \A i \in 1..Len(http_log') : http_log'[i].method # "PATCH"
                /\ tracker' = tracker
            /\ (patches /\ ~request.ok) =>
                /\ tracker' = tracker
                /\ tcall'.pc = "failed"
                /\ t_result'.kind = "McpError"
            /\ tracker'.state # tracker.state => patches /\ request.ok
      ]_vars

\* the final comment was posted and the PATCH was refused: the comment is
\* on the ticket, which is still open, and the call has failed
C29_Witness ==
    /\ tcall.tool = "close_ticket"
    /\ tcall.pc = "failed"
    /\ Sent("POST", "comment", TRUE) # {}
    /\ Sent("PATCH", "issue", FALSE) # {}
    /\ tracker.state = "open"
    /\ Len(tracker.comments) = 1
    /\ tracker.comments[1].text = Texts.thanks
    /\ t_result.kind = "McpError"

\* the running call met a missing GITHUB_TOKEN in a tool that writes
TokenMissed ==
    /\ tcall.tool \in {"close_ticket", "post_ticket_reply", "update_ticket_meta"}
    /\ tcall.pc = "failed"
    /\ ~token
    /\ \E i \in 1..Len(ctx_errors) : ctx_errors[i] = "token"

\* C27: a write tool called without GITHUB_TOKEN fails with an McpError whose
\* code is -32602, the code given where the missing token is detected
C27_MissingTokenIsInvalidParams ==
    TokenMissed => t_result.kind = "McpError" /\ t_result.code = InvalidParams

\* C27, as the code behaves: the McpError raised for the missing token is
\* caught by the handler for Exception of the same tool, reported a second
\* time, and the caller receives code -32603; nothing was sent to the tracker
C27_MissingTokenIsInternalError ==
    TokenMissed =>
        /\ t_result.kind = "McpError"
        /\ t_result.code = InternalError
        /\ ctx_errors = <<"token", "unexpected">>
        /\ http_log = <<>>

\* close_ticket was called without a token
C27_Witness ==
    /\ TokenMissed
    /\ tcall.tool = "close_ticket"
    /\ t_result.code = InternalError

\* the lowercased text of the label starts with "priority:"
IsPriorityLabel(l) == StartsWith(Lower(l), PriorityPrefix)

\* the list update_ticket_meta starts from: the labels of the caller, or the
\* fetched labels when the caller gave none
BaseLabels ==
    IF tcall.args.labels = PyNone THEN tcall.current_labels ELSE tcall.args.labels.value

\* C28: every PATCH of update_ticket_meta with a non-empty priority p carries
\* a label list with exactly one priority label, "priority: p", and with the
\* non-priority labels of the base list, all of them and in their order
C28_OnePriorityLabel ==
    (tcall.tool = "update_ticket_meta" /\ Truthy(tcall.args.priority)) =>
        \A i \in SentAny("PATCH", "issue") :
            LET payload == http_log[i].body
                sent    == payload["labels"]
                p       == tcall.args.priority.value
            IN  /\ "labels" \in DOMAIN payload
                /\ Cardinality({j \in 1..Len(sent) : IsPriorityLabel(sent[j])}) = 1
                /\ \A j \in 1..Len(sent) :
                       IsPriorityLabel(sent[j]) =>
                           sent[j] = <<"p", "r", "i", "o", "r", "i", "t", "y", ":", " ">> \o p
                /\ SelectSeq(sent, LAMBDA l : ~IsPriorityLabel(l))
                       = SelectSeq(BaseLabels, LAMBDA l : ~IsPriorityLabel(l))

\* a ticket with the labels "Priority:top" and "priority: low" was given the
\* priority "high" with the labels omitted
C28_Witness ==
    /\ tcall.tool = "update_ticket_meta"
    /\ tcall.pc = "done"
    /\ tcall.args.priority = PyStr(Texts.high)
    /\ tcall.args.labels = PyNone
    /\ tcall.current_labels = <<Texts.Priority_top, Texts.bug, Texts.priority_low, Texts.bug>>
    /\ Sent("PATCH", "issue", TRUE) # {}
    /\ tracker.labels = <<Texts.bug, Texts.bug, PriorityPrefix \o <<" ">> \o Texts.high>>

\* the running call is create_subtasks_from_ticket with this dry_run
SubtasksCall(dry_run) ==
    /\ tcall.tool = "create_subtasks_from_ticket"
    /\ tcall.args.dry_run = dry_run

\* C21: create_subtasks_from_ticket with dry_run=True sends nothing but GET
\* requests, so it creates no issue and posts no comment; the result it
\* returns has an empty created_subtasks and at most max_subtasks suggested
\* subtasks
C21_DryRunNeverWrites ==
    SubtasksCall(TRUE) =>
        /\ \A i \in 1..Len(http_log) : http_log[i].method = "GET"
        /\ tcall.created = <<>>
        /\ tcall.pc = "done" =>
            /\ t_result.kind = "ToolResult"
            /\ t_result.structured_content.created_subtasks = <<>>
            /\ "suggested_subtasks" \in DOMAIN t_result.structured_content =>
                   Len(t_result.structured_content.suggested_subtasks)
                       <= tcall.args.max_subtasks

\* a dry run without a token returned as many suggestions as max_subtasks
\* allows and left the ticket without issues and comments
C21_Witness ==
    /\ SubtasksCall(TRUE)
    /\ ~token
    /\ tcall.pc = "done"
    /\ tcall.args.max_subtasks = 2
    /\ t_result.structured_content.dry_run
    /\ "suggested_subtasks" \in DOMAIN t_result.structured_content
    /\ Len(t_result.structured_content.suggested_subtasks) = 2
    /\ tracker.issues = <<>>
    /\ tracker.comments = <<>>

\* the last request of the running call
LastRequest == http_log[Len(http_log)]

\* the last n issues of the tracker
LastIssues(n) ==
    SubSeq(tracker.issues, Len(tracker.issues) - n + 1, Len(tracker.issues))

\* the bodies of the accepted POSTs that created an issue, in their order
CreatedBySentOrder ==
    LET sel == SelectSeq(http_log, LAMBDA r : r.method = "POST" /\ r.target = "issues" /\ r.ok)
    IN  [i \in 1..Len(sel) |-> sel[i].body]

\* C30: create_subtasks_from_ticket with dry_run=False creates at most
\* max_subtasks issues, the first of the suggested ones in their order, and
\* they stay in the tracker; the comment on the parent is sent only when
\* every subtask up to the cap was created; after a refused creation the
\* call has failed with an McpError and no comment was sent
C30_SubtasksThenComment ==
    SubtasksCall(FALSE) =>
        LET created == tcall.created
        IN  /\ Len(created) <= tcall.args.max_subtasks
            /\ Len(created) <= Len(tcall.subtasks)
            /\ created = [i \in 1..Len(created) |-> SuggestionPool[i]]
            /\ \A i \in 1..Len(created) : CreatedBySentOrder[i] = created[i]
            /\ Len(CreatedBySentOrder) = Len(created)
            /\ Len(tracker.issues) >= Len(created)
            /\ LastIssues(Len(created)) = created
            /\ SentAny("POST", "comment") # {} =>
                   /\ created # <<>>
                   /\ Len(created) = Len(tcall.subtasks)
                   /\ Sent("POST", "issues", FALSE) = {}
            /\ Sent("POST", "issues", FALSE) # {} =>
                   /\ tcall.pc = "failed"
                   /\ t_result.kind = "McpError"
                   /\ LastRequest.target = "issues"
                   /\ \A j \in 1..Len(tracker.comments) :
                          tracker.comments[j].by # "create_subtasks_from_ticket"

\* the second of two subtasks was refused: the first stays in the tracker,
\* the parent has no comment, and the call has failed
C30_Witness ==
    /\ SubtasksCall(FALSE)
    /\ tcall.pc = "failed"
    /\ Len(tcall.subtasks) = 2
    /\ tcall.created = <<SuggestionPool[1]>>
    /\ Sent("POST", "issues", TRUE) = {3}
    /\ Sent("POST", "issues", FALSE) = {4}
    /\ tracker.issues = <<SuggestionPool[1]>>
    /\ tracker.comments = <<>>
    /\ t_result.kind = "McpError"

=============================================================================
